---- MODULE Spec2Model ----
(***************************************************************************)
(* scoped_alloc: scope-bound destruction of registered pointers.           *)
(*                                                                         *)
(* State machine of src/scoped_alloc.h.  Every thread runs user code that  *)
(* may enter an allocation scope (enter_alloc_scope), register a pointer   *)
(* (scoped_alloc / scoped_malloc), return from the scope's function, and   *)
(* whose destructors (user code again) may themselves register pointers or *)
(* enter scopes while a drain is in progress.                              *)
(*                                                                         *)
(* Identifiers are read as the header evidently means them: FUNCTION in    *)
(* line 32 is the macro parameter func, *_tl_destructor_scope_node in line *)
(* 33 and _tl_destructor_scope_node_t in line 42 are the thread-local head *)
(* _tl_destructor_scope_node of line 15.                                   *)
(***************************************************************************)
EXTENDS Integers, Sequences, FiniteSets, TLC

(* ------------------------------ bounds --------------------------------- *)

\* records malloc'ed over the whole run (all threads together)
MaxNodes == 3

\* scopes entered over the whole run (all threads together)
MaxScopes == 2

\* nesting depth of enter_alloc_scope activations of one thread
MaxDepth == 2

\* record allocations that fail over the whole run (SpecOOM)
MaxOOM == 1

(* ----------------------------- constants ------------------------------- *)

\* the null pointer: initial value of the thread-local head
NULL == 0

Threads == {1, 2}

\* the k-th block malloc hands to thread t: a fresh address each time, never
\* one handed out before (no drain follows a pointer to a freed record, so
\* the reuse of a freed address is not observable)
NodeOf(t, k) == (t - 1) * MaxNodes + k

\* addresses of records; address NULL is in the domain of the heap only so
\* that a store through a null new_node has a place
Nodes == 0 .. (Cardinality(Threads) * MaxNodes)

\* destructor arguments of scoped_alloc: absent (NULL), or a function
DESTROY == 1
Dtors == {NULL, DESTROY}

\* the value the scope's function returns
RetVals == {"done"}

\* what a compound statement yields: nothing
NoValue == "void"

\* the handle alloc produces for the resource that goes with record n: an
\* address distinct from NULL and from every record's address
Handle(n) == 100 + n

(* ------------------------------- state --------------------------------- *)

VARIABLES
    running,   \* the threads the program has started
    tl,        \* _tl_destructor_scope_node, one per thread-local slot
    frames,    \* per thread: activations of enter_alloc_scope, innermost last
    reg,       \* per thread: the scoped_alloc call in progress, if any
    heap,      \* records: destructor, data, next; live from malloc to free
    info,      \* per record: destructor calls and frees it has seen
    used,      \* per thread: number of records malloc'ed so far
    nscopes,   \* number of scopes entered so far
    log,       \* per thread: the records whose destructor was called, in order
    got,       \* per thread: value of the last scoped_alloc expression
    yielded,   \* per thread: value of the last enter_alloc_scope statement
    failure,   \* per thread: a non-local exit left a scope's function
    ooms,      \* number of record allocations that failed so far
    crashed    \* the process took a fatal signal

vars == <<running, tl, frames, reg, heap, info, used, nscopes, log, got, yielded,
          failure, ooms, crashed>>

\* struct _destructor_scope_node_t (lines 9-13), plus the allocator's view
\* of the block; the contents of a block that is not live are not kept
BlankNode == [destructor |-> NULL, data |-> NULL, next |-> NULL, live |-> FALSE]

BlankInfo == [calls |-> 0, frees |-> 0]

\* made is history: what alloc returned in the last call that completed
IdleReg == [pc |-> "idle", new_node |-> NULL, destructor |-> NULL, made |-> NULL]

\* _Thread_local: every thread has its own head pointer
SharedSlot(t) == 1
TLSlot(t) == t

\* the calling thread's current Scope Stack head
Cur(t) == tl[TLSlot(t)]

Depth(t) == Len(frames[t])

Top(t) == frames[t][Depth(t)]

TotalUsed == used[1] + used[2]

\* user code is running in thread t and is free to call into the library:
\* outside every scope, in a scope's function, or in a destructor
InUserCode(t) ==
    /\ t \in running
    /\ ~crashed
    /\ reg[t].pc = "idle"
    /\ IF Depth(t) = 0 THEN TRUE ELSE Top(t).pc \in {"work", "dtor"}

\* the library is between two steps of enter_alloc_scope's drain
InDrain(t) ==
    /\ t \in running
    /\ ~crashed
    /\ reg[t].pc = "idle"
    /\ IF Depth(t) = 0 THEN FALSE ELSE Top(t).pc = "drain"

\* the records reachable from p through next, head first
RECURSIVE Walk(_, _, _)
Walk(h, p, fuel) ==
    IF p = NULL \/ fuel = 0 THEN <<>>
    ELSE <<p>> \o Walk(h, h[p].next, fuel - 1)

Chain(h, p) == Walk(h, p, MaxNodes + 1)

SetTop(t, f) == [frames EXCEPT ![t][Depth(t)] = f]

Bump(c) == IF c < 2 THEN c + 1 ELSE c

\* the program state at the start of main; the started threads are running
Started(T) ==
    /\ running = T
    /\ tl = [s \in Threads |-> NULL]
    /\ frames = [t \in Threads |-> <<>>]
    /\ reg = [t \in Threads |-> IdleReg]
    /\ heap = [n \in Nodes |-> BlankNode]
    /\ info = [n \in Nodes |-> BlankInfo]
    /\ used = [t \in Threads |-> 0]
    /\ nscopes = 0
    /\ log = [t \in Threads |-> <<>>]
    /\ got = [t \in Threads |-> NULL]
    /\ yielded = [t \in Threads |-> NoValue]
    /\ failure = [t \in Threads |-> FALSE]
    /\ ooms = 0
    /\ crashed = FALSE

\* a program of one thread
Init == Started({1})

\* a program of two threads
InitMT == Started(Threads)

(* ------------------------- enter_alloc_scope --------------------------- *)

\* line 31: the scope's function starts with an empty stack
FreshKeep(top) == top
Fresh(top) == NULL

\* line 33: the drain's cursor starts at the head the function left behind
DrainStartNext(h, top) == IF top = NULL THEN NULL ELSE h[top].next
DrainStart(h, top) == top

\* line 39: the cursor moves to the record pushed before
AdvanceTwice(h, n) == IF h[n].next = NULL THEN NULL ELSE h[h[n].next].next
AdvanceEnd(h, n) == NULL
AdvanceStay(h, n) == n
Advance(h, n) == h[n].next

\* line 42: the saved head becomes the current one again
RestoreKeep(parent, top) == top
RestoreNull(parent, top) == NULL
Restore(parent, top) == parent

\* lines 29, 43: the macro is a compound statement, func's value is dropped
ScopeValueOfWork(v) == v
ScopeValue(v) == NoValue

\* lines 30-32: save the head, clear it, call func.
\* The other fields are history of this activation: regs, the records func
\* pushed, in order; late, those pushed by destructors during its drain;
\* nodtor, those pushed without destructor; failed, those whose alloc
\* returned NULL; done, the records whose destructor its drain called, in
\* order; entry, the stack found at entry
EnterScope(t) ==
    /\ InUserCode(t)
    /\ Depth(t) < MaxDepth
    /\ nscopes < MaxScopes
    /\ nscopes' = nscopes + 1
    /\ frames' = [frames EXCEPT ![t] = Append(@,
           [parent |-> Cur(t), pc |-> "work", cur_node |-> NULL, ret |-> NoValue,
            regs |-> <<>>, late |-> <<>>, nodtor |-> {}, failed |-> {},
            done |-> <<>>, entry |-> Chain(heap, Cur(t))])]
    /\ tl' = [tl EXCEPT ![TLSlot(t)] = Fresh(Cur(t))]
    /\ UNCHANGED <<running, reg, heap, info, used, log, got, yielded, failure, ooms, crashed>>

\* lines 32-33: func returns v; the cursor is taken from the head
WorkReturn(t, v) ==
    /\ InUserCode(t)
    /\ Depth(t) > 0
    /\ Top(t).pc = "work"
    /\ frames' = SetTop(t, [Top(t) EXCEPT !.pc = "drain",
                                          !.cur_node = DrainStart(heap, Cur(t)),
                                          !.ret = v])
    /\ UNCHANGED <<running, tl, reg, heap, info, used, nscopes, log, got, yielded,
                   failure, ooms, crashed>>

\* line 40: free(prev_node)
Free(h, n) == [h EXCEPT ![n] = BlankNode]

Freed(i, n) == [i EXCEPT ![n].frees = Bump(@)]

\* line 35: the test that guards the destructor call
HasDestructorAlways(h, n) == TRUE
HasDestructor(h, n) == h[n].destructor # NULL

\* lines 34-36: the record has a destructor, which is called with its data
DrainCall(t) ==
    /\ InDrain(t)
    /\ Top(t).cur_node # NULL
    /\ HasDestructor(heap, Top(t).cur_node)
    /\ log' = [log EXCEPT ![t] = Append(@, Top(t).cur_node)]
    /\ info' = [info EXCEPT ![Top(t).cur_node].calls = Bump(@)]
    /\ frames' = SetTop(t, [Top(t) EXCEPT !.pc = "dtor",
                                          !.done = Append(@, Top(t).cur_node)])
    /\ UNCHANGED <<running, tl, reg, heap, used, nscopes, got, yielded, failure, ooms, crashed>>

\* lines 38-40 after a destructor call: advance the cursor, free the record
DtorReturn(t) ==
    /\ InUserCode(t)
    /\ Depth(t) > 0
    /\ Top(t).pc = "dtor"
    /\ frames' = SetTop(t, [Top(t) EXCEPT !.pc = "drain",
                                          !.cur_node = Advance(heap, Top(t).cur_node)])
    /\ heap' = Free(heap, Top(t).cur_node)
    /\ info' = Freed(info, Top(t).cur_node)
    /\ UNCHANGED <<running, tl, reg, used, nscopes, log, got, yielded, failure, ooms, crashed>>

\* lines 35, 38-40 for a record without destructor: no call, advance, free
DrainSkip(t) ==
    /\ InDrain(t)
    /\ Top(t).cur_node # NULL
    /\ ~HasDestructor(heap, Top(t).cur_node)
    /\ frames' = SetTop(t, [Top(t) EXCEPT !.cur_node = Advance(heap, Top(t).cur_node)])
    /\ heap' = Free(heap, Top(t).cur_node)
    /\ info' = Freed(info, Top(t).cur_node)
    /\ UNCHANGED <<running, tl, reg, used, nscopes, log, got, yielded, failure, ooms, crashed>>

\* lines 34, 42-43: the cursor is null, the saved head is restored
ExitScope(t) ==
    /\ InDrain(t)
    /\ Top(t).cur_node = NULL
    /\ tl' = [tl EXCEPT ![TLSlot(t)] = Restore(Top(t).parent, Cur(t))]
    /\ yielded' = [yielded EXCEPT ![t] = ScopeValue(Top(t).ret)]
    /\ frames' = [frames EXCEPT ![t] = SubSeq(@, 1, Depth(t) - 1)]
    /\ UNCHANGED <<running, reg, heap, info, used, nscopes, log, got, failure, ooms, crashed>>

(* ----------------------------- scoped_alloc ---------------------------- *)

\* line 59: the new record points at the head it is pushed over
LinkNone(top) == NULL
Link(top) == top

\* line 61: the value of the statement expression
ReturnedNode(h, n) == n
Returned(h, n) == h[n].data

\* lines 58-60: the record is pushed whatever alloc returned
RegistersIfMade(h) == h # NULL
Registers(h) == TRUE

\* line 56: the block malloc returns is allocated from here on
MallocLater(h, n) == h
Malloc(h, n) == [h EXCEPT ![n] = [BlankNode EXCEPT !.live = TRUE]]

\* line 56: malloc returns a fresh block for the record, contents unset
RegMalloc(t, d) ==
    /\ InUserCode(t)
    /\ TotalUsed < MaxNodes
    /\ used' = [used EXCEPT ![t] = @ + 1]
    /\ heap' = Malloc(heap, NodeOf(t, used[t] + 1))
    /\ reg' = [reg EXCEPT ![t] = [pc |-> "construct",
                                  new_node |-> NodeOf(t, used[t] + 1),
                                  destructor |-> d]]
    /\ UNCHANGED <<running, tl, frames, info, nscopes, log, got, yielded,
                   failure, ooms, crashed>>

\* History of the innermost activation for the scoped_alloc call that
\* ends: record n, destructor d, alloc returned h, pushed or not
Noted(t, n, d, h, pushed) ==
    IF Depth(t) = 0 \/ n = NULL THEN frames
    ELSE SetTop(t, [Top(t) EXCEPT
             !.regs = IF pushed /\ Top(t).pc = "work" THEN Append(@, n) ELSE @,
             !.late = IF pushed /\ Top(t).pc # "work" THEN Append(@, n) ELSE @,
             !.nodtor = IF d = NULL THEN @ \cup {n} ELSE @,
             !.failed = IF h = NULL THEN @ \cup {n} ELSE @])

\* lines 57-61: store the destructor; call alloc, which constructs the
\* resource (made) or fails with a null pointer, and store what it returned;
\* link the record over the head, make it the head, yield its data.
\* alloc is a leaf: it does not call back into the library
RegConstruct(t, made) ==
    /\ ~crashed
    /\ reg[t].pc = "construct"
    /\ LET n == reg[t].new_node
           d == reg[t].destructor
           h == IF made THEN Handle(n) ELSE NULL
       IN  /\ IF Registers(h)
              THEN /\ heap' = [heap EXCEPT ![n].destructor = d,
                                           ![n].data = h,
                                           ![n].next = Link(Cur(t))]
                   /\ tl' = [tl EXCEPT ![TLSlot(t)] = n]
                   /\ got' = [got EXCEPT ![t] = Returned(heap', n)]
              ELSE /\ got' = [got EXCEPT ![t] = h]
                   /\ UNCHANGED <<heap, tl>>
           /\ frames' = Noted(t, n, d, h, Registers(h))
           /\ reg' = [reg EXCEPT ![t] = [IdleReg EXCEPT !.made = h]]
    /\ UNCHANGED <<running, info, used, nscopes, log, yielded, failure, ooms, crashed>>

(* ---------------------------- scoped_malloc ---------------------------- *)

\* line 73: the destructor scoped_malloc hands to scoped_alloc is free
HeapDestructorNone == NULL
HeapDestructor == DESTROY

\* line 73: scoped_malloc(type) is scoped_alloc(free, malloc, sizeof(type)):
\* the call starts as scoped_alloc does; its alloc is malloc, which returns
\* a block or NULL (RegConstruct)
ScopedMalloc(t) == RegMalloc(t, HeapDestructor)

(* ---------------------- record allocation failure ---------------------- *)

\* line 56: malloc has no memory for the record and returns NULL
RegMallocFail(t, d) ==
    /\ InUserCode(t)
    /\ ooms < MaxOOM
    /\ ooms' = ooms + 1
    /\ reg' = [reg EXCEPT ![t] = [pc |-> "construct", new_node |-> NULL,
                                  destructor |-> d, made |-> NULL]]
    /\ UNCHANGED <<running, tl, frames, heap, info, used, nscopes, log, got, yielded,
                   failure, crashed>>

\* line 57 stores through the null new_node, which is undefined: either
\* the store traps and the process dies here, or nothing stops it and lines
\* 57-61 run on address NULL (RegConstruct with new_node = NULL)
RegNullTrap(t) ==
    /\ ~crashed
    /\ reg[t].pc = "construct"
    /\ reg[t].new_node = NULL
    /\ crashed' = TRUE
    /\ UNCHANGED <<running, tl, frames, reg, heap, info, used, nscopes, log, got, yielded,
                   failure, ooms>>

(* --------------------------- non-local exit ---------------------------- *)

\* lines 32-42 hold no handler: when func leaves by a non-local exit, the
\* head stays what func left behind
UnwoundRestored(top, parent) == parent
Unwound(top, parent) == top

\* line 32: func does not return; control lands in user code k activations
\* further out (a longjmp to a setjmp made there), and lines 33-42 of every
\* activation in between never run
NonLocalExit(t, k) ==
    /\ InUserCode(t)
    /\ Depth(t) > 0
    /\ Top(t).pc = "work"
    /\ k < Depth(t)
    /\ frames' = [frames EXCEPT ![t] = SubSeq(@, 1, k)]
    /\ tl' = [tl EXCEPT ![TLSlot(t)] = Unwound(Cur(t), frames[t][k + 1].parent)]
    /\ failure' = [failure EXCEPT ![t] = TRUE]
    /\ UNCHANGED <<running, reg, heap, info, used, nscopes, log, got, yielded, ooms, crashed>>

\* line 36: the destructor does not return; control lands in user code k
\* activations further out, and lines 38-42 of the draining activation, and
\* lines 33-42 of every activation in between, never run
DtorNonLocalExit(t, k) ==
    /\ InUserCode(t)
    /\ Depth(t) > 0
    /\ Top(t).pc = "dtor"
    /\ k < Depth(t)
    /\ frames' = [frames EXCEPT ![t] = SubSeq(@, 1, k)]
    /\ tl' = [tl EXCEPT ![TLSlot(t)] = Unwound(Cur(t), frames[t][k + 1].parent)]
    /\ failure' = [failure EXCEPT ![t] = TRUE]
    /\ UNCHANGED <<running, reg, heap, info, used, nscopes, log, got, yielded, ooms, crashed>>

(* --------------------------- specification ----------------------------- *)

Next ==
    \E t \in Threads :
        \/ EnterScope(t)
        \/ \E v \in RetVals : WorkReturn(t, v)
        \/ DrainCall(t)
        \/ DtorReturn(t)
        \/ DrainSkip(t)
        \/ ExitScope(t)
        \/ \E d \in Dtors : RegMalloc(t, d)
        \/ \E made \in BOOLEAN : RegConstruct(t, made)

\* one thread; every record allocation succeeds and every scope's function
\* returns
Spec == Init /\ [][Next]_vars

\* the same, for two threads
SpecMT == InitMT /\ [][Next]_vars

\* malloc may fail for a record
NextOOM ==
    \/ Next
    \/ \E t \in Threads : \E d \in Dtors : RegMallocFail(t, d)
    \/ \E t \in Threads : RegNullTrap(t)

SpecOOM == Init /\ [][NextOOM]_vars

\* a scope's function may leave by a non-local exit
NextAbort ==
    \/ Next
    \/ \E t \in Threads : \E k \in 0 .. (MaxDepth - 1) : NonLocalExit(t, k)

SpecAbort == Init /\ [][NextAbort]_vars

\* the program also uses the heap form of registration
NextHeap ==
    \/ Next
    \/ \E t \in Threads : ScopedMalloc(t)

SpecHeap == Init /\ [][NextHeap]_vars

\* a destructor may leave by a non-local exit
NextDtorAbort ==
    \/ Next
    \/ \E t \in Threads : \E k \in 0 .. (MaxDepth - 1) : DtorNonLocalExit(t, k)

SpecDtorAbort == Init /\ [][NextDtorAbort]_vars

\* the thread keeps running, and every function and destructor it calls
\* returns
SpecLive == Init /\ [][Next]_vars /\ WF_vars(Next)

(* ------------------------------ properties ----------------------------- *)

Range(q) == {q[i] : i \in 1 .. Len(q)}

Rev(q) == [i \in 1 .. Len(q) |-> q[Len(q) + 1 - i]]

IsPrefix(p, q) == Len(p) <= Len(q) /\ SubSeq(q, 1, Len(p)) = p

\* the activations of enter_alloc_scope that are on some thread's call stack
Activations == {<<t, i>> : t \in Threads, i \in 1 .. MaxDepth + 1}

Active == {a \in Activations : a[2] <= Depth(a[1])}

Frame(a) == frames[a[1]][a[2]]

\* the records func pushed with a destructor, in the order of their pushes
Callable(f) == SelectSeq(f.regs, LAMBDA n : n \notin f.nodtor)

\* the drain of the activation has run to its end: line 34 found no record
Drained(f) == f.pc = "drain" /\ f.cur_node = NULL

\* thread t takes the step
Steps(t) == frames'[t] # frames[t] \/ reg'[t] # reg[t]

\* thread t returns from enter_alloc_scope in the step (line 43)
Exits(t) == InDrain(t) /\ Len(frames'[t]) < Depth(t)

\* thread t's scoped_alloc call ends in the step (line 61)
Registered(t) == reg[t].pc = "construct" /\ reg'[t].pc = "idle"

\* the records malloc'ed by thread t
Owned(t) == {NodeOf(t, k) : k \in 1 .. MaxNodes}

\* C1: the drain of a scope calls the destructors of the records the scope's
\* function pushed in exactly the reverse of the order of their pushes: while
\* it runs, the calls made so far are a prefix of that reverse order, and
\* when it ends they are the whole of it.
C1_ReverseOrder ==
    \A a \in Active :
        LET f == Frame(a)
        IN  /\ IsPrefix(f.done, Rev(Callable(f)))
            /\ (f.pc = "work" => f.done = <<>>)
            /\ (Drained(f) => f.done = Rev(Callable(f)))

\* three records were pushed in one scope and its drain has called all three
C1_Witness ==
    \E a \in Active : Drained(Frame(a)) /\ Len(Frame(a).done) = 3
                      /\ Frame(a).done = Rev(Frame(a).regs)

C3_Isolation ==
    [][\A t \in Threads : \A i \in 1 .. Depth(t) :
           LET f == frames[t][i]
           IN  /\ \A n \in Range(f.entry) : heap'[n] = heap[n] /\ info'[n] = info[n]
               /\ Chain(heap', f.parent) = f.entry
               /\ (f.pc \in {"drain", "dtor"} /\ f.cur_node # NULL =>
                      f.cur_node \in Range(f.regs) \ Range(f.entry))
               /\ (i <= Len(frames'[t]) =>
                      /\ frames'[t][i].parent = f.parent
                      /\ frames'[t][i].entry = f.entry)
               /\ (Exits(t) /\ i = Depth(t) =>
                      \A n \in Range(f.regs) : ~heap'[n].live /\ info'[n].frees = 1)
      ]_vars

\* outer pushes X, inner pushes Y and exits, outer pushes W and exits:
\* the destructor calls are Y, then W, X
C3_Witness ==
    \E t \in Threads :
        /\ Depth(t) = 0
        /\ log[t] = <<NodeOf(t, 2), NodeOf(t, 3), NodeOf(t, 1)>>

\* C4: when enter_alloc_scope returns, the thread's head is the head saved
\* at entry and the stack under it is the stack found at entry, record by
\* record.
C4_Restored ==
    [][\A t \in Threads :
           Exits(t) =>
               /\ tl'[TLSlot(t)] = Top(t).parent
               /\ Chain(heap', tl'[TLSlot(t)]) = Top(t).entry
               /\ \A n \in Range(Top(t).entry) : heap'[n] = heap[n]
      ]_vars

\* X was pushed, a scope pushed and freed Y, and W, pushed after the scope
\* returned, lies on top of X
C4_Witness ==
    \E t \in Threads :
        /\ Cur(t) = NodeOf(t, 3)
        /\ heap[NodeOf(t, 3)].next = NodeOf(t, 1)
        /\ heap[NodeOf(t, 1)].live
        /\ info[NodeOf(t, 2)].frees = 1

Abandons(t) == Depth(t) > 0 /\ Top(t).pc = "work" /\ Len(frames'[t]) < Depth(t)

C7_Original ==
    [][\A t \in Threads :
           reg[t].pc = "construct" /\ reg[t].new_node = NULL /\ Steps(t) =>
               crashed' /\ heap' = heap /\ tl' = tl
      ]_vars

\* C8: a step of one thread leaves the other thread's head, call stack,
\* records and destructor calls as they are; the destructors a thread calls
\* are those of its own records; and every scope of every thread destroys in
\* reverse order of the pushes.
C8_ThreadIsolation ==
    /\ [](/\ \A t \in Threads : Range(log[t]) \subseteq Owned(t)
          /\ \A t \in Threads : Range(Chain(heap, tl[TLSlot(t)])) \subseteq Owned(t)
          /\ C1_ReverseOrder)
    /\ [][\A u \in Threads :
              Steps(u) =>
                  \A t \in Threads \ {u} :
                      /\ tl'[TLSlot(t)] = tl[TLSlot(t)]
                      /\ frames'[t] = frames[t]
                      /\ reg'[t] = reg[t]
                      /\ log'[t] = log[t]
                      /\ \A n \in Owned(t) : heap'[n] = heap[n] /\ info'[n] = info[n]
         ]_vars

\* both threads are inside a scope at once: one drains its two records, the
\* other has pushed one
C8_Witness ==
    /\ Depth(1) = 1 /\ Depth(2) = 1
    /\ Top(1).pc = "dtor" /\ Len(Top(1).regs) = 2 /\ Top(1).done = <<NodeOf(1, 2)>>
    /\ Top(2).pc = "work" /\ Top(2).regs = <<NodeOf(2, 1)>>

\* C9: a scoped_alloc call whose alloc made a resource yields the handle
\* alloc returned and pushes one record, holding the destructor and that
\* handle, on top of the calling thread's current stack; the records under
\* it, and every other record, stay as they are.
C9_Push ==
    [][\A t \in Threads :
           Registered(t) /\ reg'[t].made # NULL =>
               LET n == reg[t].new_node
               IN  /\ got'[t] = reg'[t].made
                   /\ tl'[TLSlot(t)] = n
                   /\ heap'[n].destructor = reg[t].destructor
                   /\ heap'[n].data = reg'[t].made
                   /\ Chain(heap', n) = <<n>> \o Chain(heap, tl[TLSlot(t)])
                   /\ \A m \in Nodes \ {n} : heap'[m] = heap[m]
                   /\ info' = info
      ]_vars

\* in a nested scope, a record was pushed on top of an earlier one and its
\* handle was yielded
C9_Witness ==
    \E t \in Threads :
        /\ Depth(t) = 2
        /\ Top(t).pc = "work"
        /\ Len(Top(t).regs) = 2
        /\ Cur(t) = Top(t).regs[2]
        /\ heap[Cur(t)].next = Top(t).regs[1]
        /\ got[t] = Handle(Cur(t))

\* C10 as stated: enter_alloc_scope yields the value its function returned,
\* after every record the function pushed has been freed.
C10_Original ==
    [][\A t \in Threads :
           Exits(t) =>
               /\ yielded'[t] = Top(t).ret
               /\ \A n \in Range(Top(t).regs) : ~heap'[n].live
      ]_vars

\* C10 as amended: enter_alloc_scope yields no value, the value its function
\* returned is dropped; it ends only after every record the function pushed
\* has been freed, its destructor, if any, called once.
C10_NoValue ==
    [][\A t \in Threads :
           Exits(t) =>
               /\ yielded'[t] = NoValue
               /\ Top(t).ret \in RetVals
               /\ \A n \in Range(Top(t).regs) :
                      /\ ~heap'[n].live
                      /\ info'[n].frees = 1
                      /\ info'[n].calls = IF n \in Top(t).nodtor THEN 0 ELSE 1
      ]_vars

\* a scope whose function pushed a record has returned
C10_Witness ==
    \E t \in Threads :
        /\ Depth(t) = 0
        /\ reg[t].pc = "idle"
        /\ Len(log[t]) >= 1
        /\ yielded[t] = NoValue

Left(t) == (Len(frames'[t]) + 1) .. Depth(t)

\* a non-local exit of a destructor of thread t abandons activations in the step
DtorAbandons(t) == Depth(t) > 0 /\ Top(t).pc = "dtor" /\ Len(frames'[t]) < Depth(t)

\* the records of the activation its drain has not come to yet
Pending(f) == Range(f.regs) \ (Range(f.done) \cup {n \in Range(f.regs) : ~heap[n].live})

C13_FreshStackHoldsOwnRecords ==
    \A t \in Threads :
        (IF Depth(t) = 0 THEN FALSE ELSE Top(t).pc = "work") =>
            /\ Chain(heap, Cur(t)) = Rev(Top(t).regs)
            /\ (Top(t).regs = <<>> => Cur(t) = NULL)
            /\ \A n \in Range(Chain(heap, Cur(t))) : heap[n].live
            /\ Range(Chain(heap, Cur(t))) \cap Range(Top(t).entry) = {}
            /\ \A i \in 1 .. (Depth(t) - 1) :
                   Range(Chain(heap, Cur(t))) \cap
                       (Range(frames[t][i].regs) \cup Range(frames[t][i].entry)) = {}

\* X is on the outer scope's stack; the function of the inner scope has
\* pushed Y, then Z, and its current stack is Z, Y
C13_Witness ==
    \E t \in Threads :
        /\ Depth(t) = 2
        /\ Top(t).pc = "work"
        /\ Top(t).entry = <<NodeOf(t, 1)>>
        /\ Top(t).regs = <<NodeOf(t, 2), NodeOf(t, 3)>>
        /\ Chain(heap, Cur(t)) = <<NodeOf(t, 3), NodeOf(t, 2)>>

\* thread t's scoped_alloc call has reached line 58: alloc has been called
\* and has not returned
InAlloc(t) == reg[t].pc = "construct"

\* C14 as stated: as long as alloc has not returned, no record has been
\* allocated for the call.
C14_Original ==
    \A t \in Threads : InAlloc(t) => ~heap[reg[t].new_node].live

\* C14 as amended: the record is allocated first (line 56) and alloc is
\* called after that: while alloc runs the record of the call is allocated
\* but not on any stack, and the head is the one the call found; the record
\* is pushed, with the handle alloc returned in it, only when alloc has
\* returned.
C14_RecordFirst ==
    /\ [](\A t \in Threads :
              InAlloc(t) =>
                  /\ heap[reg[t].new_node].live
                  /\ heap[reg[t].new_node].data = NULL
                  /\ reg[t].new_node \notin Range(Chain(heap, Cur(t))))
    /\ [][\A t \in Threads :
              /\ (reg[t].pc = "idle" /\ reg'[t].pc = "construct" =>
                      /\ tl' = tl
                      /\ ~heap[reg'[t].new_node].live
                      /\ heap'[reg'[t].new_node].live)
              /\ (Registered(t) =>
                      /\ tl'[TLSlot(t)] = reg[t].new_node
                      /\ heap'[reg[t].new_node].data = reg'[t].made
                      /\ heap'[reg[t].new_node].next = tl[TLSlot(t)])
         ]_vars

\* alloc is running for the second registration of a scope: its record is
\* allocated and the first record is still the head
C14_Witness ==
    \E t \in Threads :
        /\ InAlloc(t)
        /\ Depth(t) = 1
        /\ Len(Top(t).regs) = 1
        /\ Cur(t) = Top(t).regs[1]
        /\ heap[reg[t].new_node].live
        /\ reg[t].new_node # Cur(t)

\* the drain of thread t deals with a record without destructor in the step
Skips(t) ==
    /\ InDrain(t)
    /\ Top(t).cur_node # NULL
    /\ heap[Top(t).cur_node].destructor = NULL
    /\ frames'[t] # frames[t]

\* C15: the drain makes no destructor call for a record whose destructor is
\* null, frees the record, once, and goes on with the record pushed before
\* it; when the drain ends, the records pushed without destructor have been
\* freed once with no call, and the destructors of the others have been
\* called once each in the reverse of the order of the pushes.
C15_NullDestructorSkipped ==
    /\ [](\A a \in Active :
              LET f == Frame(a)
              IN  /\ Range(f.done) \cap f.nodtor = {}
                  /\ \A n \in f.nodtor : info[n].calls = 0
                  /\ (Drained(f) =>
                         /\ \A n \in f.nodtor \cap Range(f.regs) :
                                info[n].frees = 1 /\ ~heap[n].live
                         /\ f.done = Rev(Callable(f))
                         /\ \A n \in Range(Callable(f)) : info[n].calls = 1))
    /\ [][\A t \in Threads :
              Skips(t) =>
                  LET n == Top(t).cur_node
                  IN  /\ log' = log
                      /\ info'[n].calls = 0
                      /\ info'[n].frees = 1
                      /\ ~heap'[n].live
                      /\ frames'[t][Depth(t)].pc = "drain"
                      /\ frames'[t][Depth(t)].cur_node = heap[n].next
                      /\ frames'[t][Depth(t)].done = Top(t).done
         ]_vars

\* A was pushed with a destructor, B without, C with: the drain has called
\* C's and A's destructors, and freed B without a call
C15_Witness ==
    \E a \in Active :
        /\ Drained(Frame(a))
        /\ Len(Frame(a).regs) = 3
        /\ Frame(a).nodtor = {Frame(a).regs[2]}
        /\ Frame(a).done = <<Frame(a).regs[3], Frame(a).regs[1]>>
        /\ info[Frame(a).regs[2]].frees = 1

\* the function of thread t's innermost scope returns in the step (line 32)
Returns(t) ==
    /\ Depth(t) > 0
    /\ Top(t).pc = "work"
    /\ Len(frames'[t]) = Depth(t)
    /\ frames'[t][Depth(t)].pc # "work"

Roots ==
    {tl[TLSlot(t)] : t \in Threads}
        \cup {Frame(a).parent : a \in Active}
        \cup {Frame(a).cur_node : a \in Active}
        \cup {reg[t].new_node : t \in Threads}

Reachable == UNION {Range(Chain(heap, p)) : p \in Roots}

\* the record is allocated, no destructor call was made for it, and nothing
\* leads to it any more
Lost(n) == heap[n].live /\ info[n].calls = 0 /\ n \notin Reachable

Base(t) == IF Depth(t) = 0 THEN tl[TLSlot(t)] ELSE frames[t][1].parent

IsSuffix(p, q) == Len(p) <= Len(q) /\ SubSeq(q, Len(q) - Len(p) + 1, Len(q)) = p

\* C18: a record pushed while no scope is active in the thread is on the
\* thread's outermost stack; every record of that stack is allocated, and
\* no destructor call and no free was ever made for it; and no step, of
\* enter_alloc_scope or of scoped_alloc, takes a record off that stack or
\* changes one: the stack after the step ends with the stack before it.
C18_TopLevelNeverDestroyed ==
    /\ [](\A t \in Threads :
              /\ \A n \in Range(Chain(heap, Base(t))) :
                     heap[n].live /\ info[n].calls = 0 /\ info[n].frees = 0
              /\ Range(log[t]) \cap Range(Chain(heap, Base(t))) = {}
              /\ \A i \in 1 .. Depth(t) :
                     Range(frames[t][i].regs) \cap Range(Chain(heap, Base(t))) = {})
    /\ [][\A t \in Threads :
              /\ IsSuffix(Chain(heap, Base(t)), Chain(heap', Base(t)'))
              /\ \A n \in Range(Chain(heap, Base(t))) : heap'[n] = heap[n]
              /\ (Depth(t) > 0 \/ Len(frames'[t]) > 0 => Base(t)' = Base(t))
         ]_vars

\* X was pushed outside every scope; a scope has since pushed and destroyed
\* two records and returned; X is still the head, never destroyed
C18_Witness ==
    \E t \in Threads :
        /\ Depth(t) = 0
        /\ reg[t].pc = "idle"
        /\ Len(log[t]) = 2
        /\ Chain(heap, Cur(t)) = <<NodeOf(t, 1)>>
        /\ heap[NodeOf(t, 1)].live
        /\ heap[NodeOf(t, 1)].destructor # NULL
        /\ info[NodeOf(t, 1)].calls = 0

====
